---- MODULE Spec2Model ----
(***************************************************************************)
(* Model of the batch transcription pipeline of shot.py: process_files,    *)
(* process_folder, transcribe_file and extract_audio, together with the    *)
(* part of the file system and of the Python library (pathlib, tempfile,   *)
(* text-mode files) they rely on.                                          *)
(*                                                                         *)
(* Strings are sequences of one-character strings, so that lower(),        *)
(* upper(), Path.name, Path.suffix, glob matching, "\n".join and the       *)
(* UTF-8 text layer are computed rather than assumed.                      *)
(***************************************************************************)
EXTENDS Integers, Sequences, FiniteSets, TLC

\* ------------------------------------------------------------------------
\* Bounds of the model
\* ------------------------------------------------------------------------

\* number of items the batch runs of one behaviour process, all together
MaxWork == 3

\* ------------------------------------------------------------------------
\* Characters and strings
\* ------------------------------------------------------------------------

UpperLetters ==
  <<"A","B","C","D","E","F","G","H","I","J","K","L","M",
    "N","O","P","Q","R","S","T","U","V","W","X","Y","Z">>

LowerLetters ==
  <<"a","b","c","d","e","f","g","h","i","j","k","l","m",
    "n","o","p","q","r","s","t","u","v","w","x","y","z">>

Digits == <<"0","1","2","3","4","5","6","7","8","9">>

\* position of character c in the sequence of characters s, 0 when absent
IndexIn(c, s) ==
  IF \E i \in 1..Len(s) : s[i] = c
    THEN CHOOSE i \in 1..Len(s) : s[i] = c
    ELSE 0

LowerChar(c) ==
  IF IndexIn(c, UpperLetters) > 0 THEN LowerLetters[IndexIn(c, UpperLetters)] ELSE c

UpperChar(c) ==
  IF IndexIn(c, LowerLetters) > 0 THEN UpperLetters[IndexIn(c, LowerLetters)] ELSE c

\* str.lower() and str.upper()
lower(s) == [i \in 1..Len(s) |-> LowerChar(s[i])]

upper(s) == [i \in 1..Len(s) |-> UpperChar(s[i])]

\* str.rfind(c), 1-based, 0 when c does not occur
rfind(s, c) ==
  IF \E i \in 1..Len(s) : s[i] = c
    THEN CHOOSE i \in 1..Len(s) : s[i] = c /\ \A j \in (i+1)..Len(s) : s[j] # c
    ELSE 0

\* str.startswith and str.endswith
StartsWith(s, p) == Len(p) <= Len(s) /\ SubSeq(s, 1, Len(p)) = p

EndsWith(s, p) == Len(p) <= Len(s) /\ SubSeq(s, Len(s) - Len(p) + 1, Len(s)) = p

\* str(n) for a natural number
RECURSIVE Dec(_)
Dec(n) == IF n < 10 THEN <<Digits[n + 1]>> ELSE Dec(n \div 10) \o <<Digits[(n % 10) + 1]>>

\* sep.join(list)
RECURSIVE join(_, _)
join(sep, list) ==
  IF Len(list) = 0 THEN <<>>
  ELSE IF Len(list) = 1 THEN list[1]
  ELSE list[1] \o sep \o join(sep, Tail(list))

\* concatenation of a sequence of sequences
RECURSIVE Flatten(_)
Flatten(ss) == IF Len(ss) = 0 THEN <<>> ELSE Head(ss) \o Flatten(Tail(ss))

\* ------------------------------------------------------------------------
\* pathlib
\* ------------------------------------------------------------------------

\* Fault variant of PathName: the whole path is used as the display name
\* (file.name instead of Path(file.name).name)
PathName_whole(p) == p

\* Path(p).name: the final path segment
PathName(p) == SubSeq(p, rfind(p, "/") + 1, Len(p))

\* Path(p).parent
PathParent(p) == SubSeq(p, 1, rfind(p, "/") - 1)

\* Path(p).suffix: from the last dot of the name, unless that dot is the
\* first or the last character of the name
PathSuffix(p) ==
  LET name == PathName(p)
      i    == rfind(name, ".")
  IN  IF 1 < i /\ i < Len(name) THEN SubSeq(name, i, Len(name)) ELSE <<>>

\* ------------------------------------------------------------------------
\* Program constants and literals
\* ------------------------------------------------------------------------

\* transcribe_file and process_folder: video_exts
video_exts ==
  << <<".","m","p","4">>, <<".","a","v","i">>, <<".","m","o","v">>,
     <<".","m","k","v">>, <<".","f","l","v">>, <<".","w","m","v">> >>

\* process_folder: audio_exts
audio_exts ==
  << <<".","m","p","3">>, <<".","w","a","v">>, <<".","o","g","g">>,
     <<".","a","a","c">>, <<".","f","l","a","c">>, <<".","m","4","a">>,
     <<".","w","m","a">> >>

\* process_folder: all_exts = audio_exts + video_exts
all_exts == audio_exts \o video_exts

NoFilesUploaded ==
  <<"N","o"," ","f","i","l","e","s"," ","u","p","l","o","a","d","e","d">>

NoFolderSelected ==
  <<"N","o"," ","f","o","l","d","e","r"," ","s","e","l","e","c","t","e","d">>

NoFilesFound ==
  <<"N","o"," ","a","u","d","i","o","/","v","i","d","e","o"," ","f","i","l","e","s",
    " ","f","o","u","n","d"," ","i","n"," ","f","o","l","d","e","r">>

\* Python's None, kept apart from every path (no path is this sequence)
None == <<"None">>

\* f"=== {name} ===\n{text}\n"
SuccessSection(name, text) ==
  <<"=","=","="," ">> \o name \o <<" ","=","=","=","\n">> \o text \o <<"\n">>

\* f"=== {name} ===\nError: {str(e)}\n"
ErrorSection(name, e) ==
  <<"=","=","="," ">> \o name \o <<" ","=","=","=","\n">>
    \o <<"E","r","r","o","r",":"," ">> \o e \o <<"\n">>

\* ------------------------------------------------------------------------
\* Environment: what the collaborators can answer
\* ------------------------------------------------------------------------

\* the character U+00E9 (two bytes in UTF-8)
EAcute == "U+00E9"

\* texts model.transcribe can produce
Texts == { <<"h", EAcute>> }

\* str(e) of the exceptions the collaborators can raise
Errors == { <<"b","a","d">> }

\* content of a user's media file, of a freshly created temporary file and
\* of a waveform written by ffmpeg
MediaBytes == <<77>>

EmptyBytes == <<>>

WaveBytes == <<82, 73, 70, 70>>

\* The files of the user, in the order the operating system enumerates
\* them (os.scandir order).  a/s is a sub-directory of a.
FsListing ==
  << <<"a","/","B",".","M","P","3">>,
     <<"a","/","a",".","m","p","3">>,
     <<"a","/","s","/","z",".","m","p","3">>,
     <<"b","/","c",".","M","p","4">>,
     <<"b","/","n",".","t","x","t">>,
     <<"c","/","v",".","m","p","4">>,
     <<"c","/","w",".","w","a","v">>,
     <<"e","/","n",".","t","x","t">> >>

SourceFiles == { FsListing[i] : i \in 1..Len(FsListing) }

\* paths the upload widget can hand to process_files (file.name)
UploadPaths ==
  { <<"c","/","v",".","m","p","4">>,
    <<"b","/","c",".","M","p","4">>,
    <<"c","/","w",".","w","a","v">> }

\* sequences of at most n elements of S
SeqsUpTo(S, n) == UNION { [1..k -> S] : k \in 0..n }

\* folder paths the folder text box can hand to process_folder
FolderPaths == { <<>>, <<"a">>, <<"b">>, <<"c">>, <<"e">> }

\* ------------------------------------------------------------------------
\* Text-mode files: newline translation and UTF-8
\* ------------------------------------------------------------------------

\* the UTF-8 encoding of one character
Utf8(c) ==
  IF IndexIn(c, LowerLetters) > 0 THEN <<96 + IndexIn(c, LowerLetters)>>
  ELSE IF IndexIn(c, UpperLetters) > 0 THEN <<64 + IndexIn(c, UpperLetters)>>
  ELSE IF IndexIn(c, Digits) > 0 THEN <<47 + IndexIn(c, Digits)>>
  ELSE CASE c = "\n" -> <<10>>
         [] c = "\r" -> <<13>>
         [] c = " "  -> <<32>>
         [] c = "."  -> <<46>>
         [] c = "/"  -> <<47>>
         [] c = ":"  -> <<58>>
         [] c = "="  -> <<61>>
         [] c = EAcute -> <<195, 169>>

\* str.encode('utf-8')
encode(s) == Flatten([i \in 1..Len(s) |-> Utf8(s[i])])

\* TextIOWrapper with newline=None: on output every "\n" becomes os.linesep
TranslateNewlines(s, linesep) ==
  Flatten([i \in 1..Len(s) |-> IF s[i] = "\n" THEN linesep ELSE <<s[i]>>])

\* ------------------------------------------------------------------------
\* State
\* ------------------------------------------------------------------------

VARIABLES
  windows,     \* the platform: TRUE on Windows, FALSE on POSIX
  disk,        \* the file system: path |-> bytes of the file
  pc,          \* where the running handler is
  mode,        \* "files" (process_files) or "folder" (process_folder)
  arg,         \* the handler's first argument: files, or folder_path
  files,       \* the list the handler iterates over
  idx,         \* 1-based position of the loop in files
  results,     \* process_files / process_folder: results
  audio_path,  \* transcribe_file: audio_path
  text,        \* transcribe_file: result["text"]
  ret,         \* what the handler returned: [text, handle]
  work,        \* items handed to the loops of all batch runs so far
  log,         \* the calls transcribe_file made for the latest item, in order
  created_wav, \* every path extract_audio ever created
  created_txt, \* the report paths temp_output created during this batch
  reports,     \* every report path temp_output ever created
  unlinked     \* every path os.unlink was ever applied to

vars ==
  << windows, disk, pc, mode, arg, files, idx, results, audio_path, text, ret,
     work, log, created_wav, created_txt, reports, unlinked >>

NoRet == [text |-> <<>>, handle |-> None]

\* the item the loop is at: file.name / str(file_path)
file_path == files[idx]

\* os.linesep
linesep == IF windows THEN <<"\r", "\n">> ELSE <<"\n">>

\* tempfile.NamedTemporaryFile(delete=False, suffix=...).name: a name that
\* no existing file has
TempName(suffix) ==
  LET cand(n) == <<"/","t","m","p","/","t","m","p">> \o Dec(n) \o suffix
      n0 == CHOOSE n \in 0..Cardinality(DOMAIN disk) :
              /\ cand(n) \notin DOMAIN disk
              /\ \A m \in 0..(n-1) : cand(m) \in DOMAIN disk
  IN  cand(n0)

\* the file system after path p was (over)written with bytes b
Written(p, b) == [q \in (DOMAIN disk) \cup {p} |-> IF q = p THEN b ELSE disk[q]]

\* the file system after os.unlink(p)
Removed(p) == [q \in (DOMAIN disk) \ {p} |-> disk[q]]

Init ==
  /\ windows \in BOOLEAN
  /\ disk = [p \in SourceFiles |-> MediaBytes]
  /\ pc = "idle"
  /\ mode = "none"
  /\ arg = <<>>
  /\ files = <<>>
  /\ idx = 0
  /\ results = <<>>
  /\ audio_path = None
  /\ text = <<>>
  /\ ret = NoRet
  /\ work = 0
  /\ log = <<>>
  /\ created_wav = {}
  /\ created_txt = {}
  /\ reports = {}
  /\ unlinked = {}

\* ------------------------------------------------------------------------
\* transcribe_file and extract_audio
\* ------------------------------------------------------------------------

\* Fault variant of IsVideo: the suffix is compared without .lower()
IsVideo_case_sensitive(p) == \E i \in 1..Len(video_exts) : PathSuffix(p) = video_exts[i]

\* Path(file_path).suffix.lower() in video_exts
IsVideo(p) == \E i \in 1..Len(video_exts) : lower(PathSuffix(p)) = video_exts[i]

\* the loop moves to the next item, or leaves the loop after the last one
LoopNext ==
  /\ idx' = idx + 1
  /\ pc' = IF idx < Len(files) THEN "load" ELSE "persist"
  /\ audio_path' = None
  /\ text' = <<>>

\* Fault variant of Except: the try encloses the loop instead of one item,
\* so the first failure is recorded and ends the loop
Except_abort(e) ==
  /\ results' = Append(results, ErrorSection(PathName(file_path), e))
  /\ idx' = Len(files) + 1
  /\ pc' = "persist"
  /\ audio_path' = None
  /\ text' = <<>>

\* except Exception as e: results.append(f"=== {name} ===\nError: {str(e)}\n")
Except(e) ==
  /\ results' = Append(results, ErrorSection(PathName(file_path), e))
  /\ LoopNext

\* whisper.load_model(model_name) returns
load_model ==
  /\ pc = "load"
  /\ pc' = "classify"
  /\ log' = << [op |-> "transcribe_file", item |-> idx, arg |-> file_path, res |-> None],
                [op |-> "load_model", item |-> idx, arg |-> None, res |-> None] >>
  /\ UNCHANGED << windows, disk, mode, arg, files, idx, results, audio_path, text,
                  ret, work, created_wav, created_txt, reports, unlinked >>

\* whisper.load_model(model_name) raises
load_model_raises ==
  /\ pc = "load"
  /\ \E e \in Errors : Except(e)
  /\ log' = << [op |-> "transcribe_file", item |-> idx, arg |-> file_path, res |-> None],
                [op |-> "load_model", item |-> idx, arg |-> None, res |-> None] >>
  /\ UNCHANGED << windows, disk, mode, arg, files, ret, work, created_wav,
                  created_txt, reports, unlinked >>

\* not a video: audio_path = file_path
classify_audio ==
  /\ pc = "classify"
  /\ ~IsVideo(file_path)
  /\ audio_path' = file_path
  /\ pc' = "transcribe"
  /\ UNCHANGED << windows, disk, mode, arg, files, idx, results, text, ret, work,
                  log, created_wav, created_txt, reports, unlinked >>

\* a video: extract_audio(file_path) creates the temporary file, runs ffmpeg
\* on it and returns its name whatever ffmpeg's exit status was.  ffmpeg
\* either writes the waveform or fails and leaves the file empty.
extract_audio ==
  /\ pc = "classify"
  /\ IsVideo(file_path)
  /\ LET temp_audio == TempName(<<".","w","a","v">>)
     IN  /\ \E out \in {WaveBytes, EmptyBytes} : disk' = Written(temp_audio, out)
         /\ audio_path' = temp_audio
         /\ created_wav' = created_wav \cup {temp_audio}
         /\ log' = Append(log, [op |-> "extract_audio", item |-> idx,
                                 arg |-> file_path, res |-> temp_audio])
  /\ pc' = "transcribe"
  /\ UNCHANGED << windows, mode, arg, files, idx, results, text, ret, work,
                  created_txt, reports, unlinked >>

\* a video: NamedTemporaryFile raises inside extract_audio (nothing created)
extract_audio_tempfile_raises ==
  /\ pc = "classify"
  /\ IsVideo(file_path)
  /\ \E e \in Errors : Except(e)
  /\ log' = Append(log, [op |-> "extract_audio", item |-> idx, arg |-> file_path, res |-> None])
  /\ UNCHANGED << windows, disk, mode, arg, files, ret, work, created_wav,
                  created_txt, reports, unlinked >>

\* a video: subprocess.run raises inside extract_audio (ffmpeg cannot be
\* started); the temporary file was already created and closed
extract_audio_run_raises ==
  /\ pc = "classify"
  /\ IsVideo(file_path)
  /\ LET temp_audio == TempName(<<".","w","a","v">>)
     IN  /\ disk' = Written(temp_audio, EmptyBytes)
         /\ created_wav' = created_wav \cup {temp_audio}
  /\ \E e \in Errors : Except(e)
  /\ log' = Append(log, [op |-> "extract_audio", item |-> idx, arg |-> file_path, res |-> None])
  /\ UNCHANGED << windows, mode, arg, files, ret, work, created_txt, reports, unlinked >>

\* model.transcribe(audio_path, language=lang) returns; it needs a file it
\* can decode, which an empty waveform is not
transcribe ==
  /\ pc = "transcribe"
  /\ audio_path \in DOMAIN disk
  /\ disk[audio_path] # EmptyBytes
  /\ \E t \in Texts : text' = t
  /\ pc' = "cleanup"
  /\ log' = Append(log, [op |-> "transcribe", item |-> idx, arg |-> audio_path, res |-> None])
  /\ UNCHANGED << windows, disk, mode, arg, files, idx, results, audio_path, ret,
                  work, created_wav, created_txt, reports, unlinked >>

\* model.transcribe raises: transcribe_file is left before its cleanup
transcribe_raises ==
  /\ pc = "transcribe"
  /\ \E e \in Errors : Except(e)
  /\ log' = Append(log, [op |-> "transcribe", item |-> idx, arg |-> audio_path, res |-> None])
  /\ UNCHANGED << windows, disk, mode, arg, files, ret, work, created_wav,
                  created_txt, reports, unlinked >>

\* Fault variant of cleanup: os.unlink(audio_path) without the comparison
\* with file_path
cleanup_always_unlinks ==
  /\ pc = "cleanup"
  /\ disk' = Removed(audio_path)
  /\ unlinked' = unlinked \cup {audio_path}
  /\ log' = Append(log, [op |-> "unlink", item |-> idx, arg |-> audio_path, res |-> None])
  /\ results' = Append(results, SuccessSection(PathName(file_path), text))
  /\ LoopNext
  /\ UNCHANGED << windows, mode, arg, files, ret, work, created_wav, created_txt, reports >>

\* if audio_path != file_path: os.unlink(audio_path); return result["text"];
\* then results.append(f"=== {name} ===\n{text}\n")
cleanup ==
  /\ pc = "cleanup"
  /\ IF audio_path # file_path
       THEN /\ disk' = Removed(audio_path)
            /\ unlinked' = unlinked \cup {audio_path}
            /\ log' = Append(log, [op |-> "unlink", item |-> idx, arg |-> audio_path, res |-> None])
       ELSE UNCHANGED << disk, unlinked, log >>
  /\ results' = Append(results, SuccessSection(PathName(file_path), text))
  /\ LoopNext
  /\ UNCHANGED << windows, mode, arg, files, ret, work, created_wav, created_txt, reports >>

\* ------------------------------------------------------------------------
\* process_files and process_folder
\* ------------------------------------------------------------------------

\* a handler starts its loop over the list fs
StartLoop(m, a, fs) ==
  /\ mode' = m
  /\ arg' = a
  /\ files' = fs
  /\ idx' = 1
  /\ results' = <<>>
  /\ pc' = "load"
  /\ ret' = NoRet
  /\ log' = <<>>
  /\ created_txt' = {}
  /\ work' = work + Len(fs)
  /\ UNCHANGED << windows, disk, audio_path, text, created_wav, reports, unlinked >>

\* Fault variant of ReturnMessage: the emptiness test comes after the report
\* was persisted, so an empty report file is created and handed out
ReturnMessage_persists(m, a, msg) ==
  /\ mode' = m
  /\ arg' = a
  /\ files' = <<>>
  /\ idx' = 0
  /\ results' = <<>>
  /\ pc' = "returned"
  /\ LET temp_output == TempName(<<".","t","x","t">>)
     IN  /\ disk' = Written(temp_output, EmptyBytes)
         /\ created_txt' = {temp_output}
         /\ reports' = reports \cup {temp_output}
         /\ ret' = [text |-> msg, handle |-> temp_output]
  /\ log' = <<>>
  /\ UNCHANGED << windows, audio_path, text, work, created_wav, unlinked >>

\* a handler returns a message and None before any work
ReturnMessage(m, a, msg) ==
  /\ mode' = m
  /\ arg' = a
  /\ files' = <<>>
  /\ idx' = 0
  /\ results' = <<>>
  /\ pc' = "returned"
  /\ ret' = [text |-> msg, handle |-> None]
  /\ log' = <<>>
  /\ created_txt' = {}
  /\ UNCHANGED << windows, disk, audio_path, text, work, created_wav, reports,
                  unlinked >>

\* process_files(files, ...) with files empty or None: "No files uploaded"
process_files_empty ==
  /\ pc = "idle"
  /\ ReturnMessage("files", <<>>, NoFilesUploaded)

\* process_files(files, ...) with a non-empty list of uploads
process_files ==
  /\ pc = "idle"
  /\ \E fs \in SeqsUpTo(UploadPaths, MaxWork) :
       /\ fs # <<>>
       /\ work + Len(fs) <= MaxWork
       /\ StartLoop("files", fs, fs)

\* Path(folder).glob("*" + suffix) on platform win with the files in existing:
\* the direct children of folder whose name ends with suffix, in enumeration
\* order; the comparison follows the platform (case-insensitive on Windows,
\* case-sensitive on POSIX)
glob(win, existing, folder, suffix) ==
  LET norm(x) == IF win THEN lower(x) ELSE x
      hit(p)  == /\ p \in existing
                 /\ PathParent(p) = folder
                 /\ EndsWith(norm(PathName(p)), norm(suffix))
  IN  SelectSeq(FsListing, hit)

\* for ext in all_exts: files.extend(glob(f"*{ext}")); files.extend(glob(f"*{ext.upper()}"))
ScanFolder(win, existing, folder) ==
  Flatten([i \in 1..Len(all_exts) |->
             glob(win, existing, folder, all_exts[i])
               \o glob(win, existing, folder, upper(all_exts[i]))])

\* the scans of every folder while all the user's files exist (a table of
\* ScanFolder, evaluated once)
ScanTable ==
  [win \in BOOLEAN |-> [folder \in FolderPaths |-> ScanFolder(win, SourceFiles, folder)]]

\* the list process_folder builds for folder_path in the current state
Scanned(folder_path) ==
  IF SourceFiles \subseteq DOMAIN disk
    THEN ScanTable[windows][folder_path]
    ELSE ScanFolder(windows, (DOMAIN disk) \cap SourceFiles, folder_path)

\* process_folder("", ...): "No folder selected"
process_folder_nopath ==
  /\ pc = "idle"
  /\ \E folder_path \in FolderPaths :
       /\ folder_path = <<>>
       /\ ReturnMessage("folder", folder_path, NoFolderSelected)

\* process_folder(folder_path, ...) when the scan finds nothing
process_folder_nofiles ==
  /\ pc = "idle"
  /\ \E folder_path \in FolderPaths :
       /\ folder_path # <<>>
       /\ Scanned(folder_path) = <<>>
       /\ ReturnMessage("folder", folder_path, NoFilesFound)

\* process_folder(folder_path, ...) when the scan finds files
process_folder ==
  /\ pc = "idle"
  /\ \E folder_path \in FolderPaths :
       /\ folder_path # <<>>
       /\ Scanned(folder_path) # <<>>
       /\ work + Len(Scanned(folder_path)) <= MaxWork
       /\ StartLoop("folder", folder_path, Scanned(folder_path))

\* full_text = "\n".join(results)
full_text == join(<<"\n">>, results)

\* Fault variant of WriteText: the file is opened with an ASCII encoding that
\* replaces what it cannot encode by "?"
WriteText_ascii(s) ==
  LET ascii(c) == IF Len(Utf8(c)) = 1 THEN Utf8(c) ELSE <<63>>
      t == TranslateNewlines(s, linesep)
  IN  Flatten([i \in 1..Len(t) |-> ascii(t[i])])

\* temp_output.write(full_text); temp_output.close(): what reaches the disk
\* through the text layer (newline=None, encoding='utf-8')
WriteText(s) == encode(TranslateNewlines(s, linesep))

\* Fault variant of persist: NamedTemporaryFile without delete=False, so
\* close() removes the report file
persist_delete_on_close ==
  /\ pc = "persist"
  /\ LET temp_output == TempName(<<".","t","x","t">>)
     IN  /\ disk' = disk
         /\ created_txt' = created_txt \cup {temp_output}
         /\ reports' = reports \cup {temp_output}
         /\ unlinked' = unlinked \cup {temp_output}
         /\ ret' = [text |-> full_text, handle |-> temp_output]
  /\ pc' = "returned"
  /\ UNCHANGED << windows, mode, arg, files, idx, results, audio_path, text, work,
                  log, created_wav >>

\* after the loop: join, create the report file, write it, return both
persist ==
  /\ pc = "persist"
  /\ LET temp_output == TempName(<<".","t","x","t">>)
     IN  /\ disk' = Written(temp_output, WriteText(full_text))
         /\ created_txt' = created_txt \cup {temp_output}
         /\ reports' = reports \cup {temp_output}
         /\ ret' = [text |-> full_text, handle |-> temp_output]
  /\ pc' = "returned"
  /\ UNCHANGED << windows, mode, arg, files, idx, results, audio_path, text, work,
                  log, created_wav, unlinked >>

\* after the loop: the report file is created, but write or close raises
\* (nothing of the text is known to be in the file); the exception leaves
\* the handler
persist_raises ==
  /\ pc = "persist"
  /\ LET temp_output == TempName(<<".","t","x","t">>)
     IN  /\ disk' = Written(temp_output, EmptyBytes)
         /\ created_txt' = created_txt \cup {temp_output}
         /\ reports' = reports \cup {temp_output}
  /\ pc' = "raised"
  /\ UNCHANGED << windows, mode, arg, files, idx, results, audio_path, text, ret,
                  work, log, created_wav, unlinked >>

\* the handler is over and its locals are gone; the interface waits for the
\* next click
finish ==
  /\ pc \in {"returned", "raised"}
  /\ pc' = "idle"
  /\ mode' = "none"
  /\ arg' = <<>>
  /\ files' = <<>>
  /\ idx' = 0
  /\ results' = <<>>
  /\ ret' = NoRet
  /\ log' = <<>>
  /\ created_txt' = {}
  /\ UNCHANGED << windows, disk, audio_path, text, work, created_wav, reports,
                  unlinked >>

Next ==
  \/ process_files_empty
  \/ process_files
  \/ process_folder_nopath
  \/ process_folder_nofiles
  \/ process_folder
  \/ load_model
  \/ load_model_raises
  \/ classify_audio
  \/ extract_audio
  \/ extract_audio_tempfile_raises
  \/ extract_audio_run_raises
  \/ transcribe
  \/ transcribe_raises
  \/ cleanup
  \/ persist
  \/ persist_raises
  \/ finish

Spec == Init /\ [][Next]_vars

\* ------------------------------------------------------------------------
\* Vocabulary of the properties
\* ------------------------------------------------------------------------

\* the final segment of a path: what is left once everything up to a "/"
\* has been dropped
RECURSIVE FinalSegment(_)
FinalSegment(p) ==
  IF \E i \in 1..Len(p) : p[i] = "/" THEN FinalSegment(Tail(p)) ELSE p

\* the header line of a section, with its line break
Header(name) == <<"=","=","="," ">> \o name \o <<" ","=","=","=","\n">>

VideoExtensions ==
  { <<".","m","p","4">>, <<".","a","v","i">>, <<".","m","o","v">>,
    <<".","m","k","v">>, <<".","f","l","v">>, <<".","w","m","v">> }

AudioExtensions ==
  { <<".","m","p","3">>, <<".","w","a","v">>, <<".","o","g","g">>,
    <<".","a","a","c">>, <<".","f","l","a","c">>, <<".","m","4","a">>,
    <<".","w","m","a">> }

\* the extension of p is a video extension, whatever its letter case
HasVideoExtension(p) == lower(PathSuffix(p)) \in VideoExtensions

\* the extension of p is an audio or video extension, whatever its letter case
HasMediaExtension(p) == lower(PathSuffix(p)) \in (AudioExtensions \cup VideoExtensions)

\* the files directly inside folder that a case-insensitive scan is to find
MediaFilesIn(folder) ==
  { p \in DOMAIN disk : PathParent(p) = folder /\ HasMediaExtension(p) }

\* a section that reports a failure / a success for the file p
IsErrorSectionOf(sec, p) ==
  \E e \in Errors :
    sec = Header(FinalSegment(p)) \o <<"E","r","r","o","r",":"," ">> \o e \o <<"\n">>

IsSuccessSectionOf(sec, p) ==
  \E t \in Texts : sec = Header(FinalSegment(p)) \o t \o <<"\n">>

\* the handler returned a report (not a message)
ReturnedReport == pc = "returned" /\ ret.handle # None

\* the positions of the calls of op in the log of the latest item
CallsOf(op) == { i \in 1..Len(log) : log[i].op = op }

InItem == pc \in {"load", "classify", "transcribe", "cleanup"}

\* ------------------------------------------------------------------------
\* C1
\* ------------------------------------------------------------------------

\* C1: when process_files was given a non-empty list and returns, it returns
\* a report that is the "\n"-join of exactly one section per input item,
\* section k being headed by the final path segment of input item k.
C1_OneSectionPerItemInOrder ==
  (pc = "returned" /\ mode = "files" /\ arg # <<>>) =>
    /\ ret.handle # None
    /\ Len(results) = Len(arg)
    /\ \A k \in 1..Len(arg) : StartsWith(results[k], Header(FinalSegment(arg[k])))
    /\ ret.text = join(<<"\n">>, results)

\* a report for two different uploads, the first failed, the second transcribed
C1_Witness ==
  /\ pc = "returned" /\ mode = "files" /\ Len(arg) = 2 /\ arg[1] # arg[2]
  /\ IsErrorSectionOf(results[1], arg[1])
  /\ IsSuccessSectionOf(results[2], arg[2])

\* ------------------------------------------------------------------------
\* C2
\* ------------------------------------------------------------------------

\* what a step taken inside an item may do (the step part of C2)
C2_ItemStep ==
  pc \in {"load", "classify", "transcribe"} =>
    /\ files' = files
    /\ \/ /\ pc' \in {"classify", "transcribe", "cleanup"}
          /\ results' = results
          /\ idx' = idx
       \/ /\ \E e \in Errors :
               results' = Append(results,
                 Header(FinalSegment(files[idx]))
                   \o <<"E","r","r","o","r",":"," ">> \o e \o <<"\n">>)
          /\ idx' = idx + 1
          /\ pc' = IF idx < Len(files) THEN "load" ELSE "persist"

\* C2: a step taken inside an item either continues that item and leaves
\* the results alone, or (the item failed) appends exactly one
\* "Error: <description>" section for that item and moves on to the next
\* item, or to persistence after the last one; the list being processed
\* never changes.  So an exception leaves the handler only from
\* persistence, with one section recorded for every item, and a returned
\* report holds a section for every item, the failed ones included.
C2_FailureIsolated ==
  /\ [][C2_ItemStep]_vars
  /\ [](InItem => Len(results) = idx - 1 /\ idx <= Len(files))
  /\ [](pc \in {"persist", "returned", "raised"} /\ files # <<>> =>
          /\ Len(results) = Len(files)
          /\ \A k \in 1..Len(files) :
               IsErrorSectionOf(results[k], files[k]) \/ IsSuccessSectionOf(results[k], files[k]))

\* a returned report whose first item failed and whose second item was
\* transcribed afterwards
C2_Witness ==
  /\ ReturnedReport /\ Len(files) = 2
  /\ IsErrorSectionOf(results[1], files[1])
  /\ IsSuccessSectionOf(results[2], files[2])
  /\ \E i \in CallsOf("transcribe") : log[i].item = 2

\* ------------------------------------------------------------------------
\* C3
\* ------------------------------------------------------------------------

\* C3: outside the processing of an item (between items, at persistence,
\* after the batch) no temporary waveform created by extract_audio exists.
C3_TempWaveformsReleased ==
  pc \in {"load", "persist", "returned", "raised", "idle"} =>
    created_wav \cap DOMAIN disk = {}

\* ------------------------------------------------------------------------
\* C4
\* ------------------------------------------------------------------------

\* the input of the handler that starts is empty: no uploads, no folder
\* path, or a folder without any audio or video file
EmptyInput(m, a) ==
  \/ m = "files" /\ a = <<>>
  \/ m = "folder" /\ a = <<>>
  \/ m = "folder" /\ MediaFilesIn(a) = {}

\* what the start of a handler on an empty input must do (the step part of C4)
C4_EmptyInputStep ==
  (pc = "idle" /\ pc' # "idle" /\ EmptyInput(mode', arg')) =>
    /\ pc' = "returned"
    /\ ret'.handle = None
    /\ ret'.text \in {NoFilesUploaded, NoFolderSelected, NoFilesFound}
    /\ log' = <<>>
    /\ disk' = disk
    /\ created_wav' = created_wav
    /\ reports' = reports
    /\ created_txt' = {}

\* C4: a handler started on an empty input returns at once (it does not
\* raise) a message and None, having called neither the model nor the
\* extraction and having created or changed no file.
C4_EmptyInput == [][C4_EmptyInputStep]_vars

\* a folder holding only a file that is neither audio nor video was scanned
C4_Witness ==
  /\ pc = "returned" /\ mode = "folder" /\ arg = <<"e">>
  /\ ret = [text |-> NoFilesFound, handle |-> None]

\* ------------------------------------------------------------------------
\* C5
\* ------------------------------------------------------------------------

\* C5 as stated: the bytes of the report file are those of the returned text
\* (its UTF-8 encoding).
C5_FileIsReturnedText ==
  ReturnedReport => disk[ret.handle] = encode(ret.text)

\* C5 as amended: the bytes of the report file are the UTF-8 encoding of the
\* returned text with every "\n" written as the platform's line separator
\* ("\n" on POSIX, "\r\n" on Windows).
C5_FileIsReturnedTextModuloNewlines ==
  ReturnedReport =>
    /\ ret.handle \in DOMAIN disk
    /\ disk[ret.handle] =
         encode(TranslateNewlines(ret.text, IF windows THEN <<"\r","\n">> ELSE <<"\n">>))

\* a report on Windows with a failed and a transcribed item, the transcribed
\* text holding a character outside ASCII
C5_Witness ==
  /\ ReturnedReport /\ windows /\ Len(files) = 2
  /\ IsErrorSectionOf(results[1], files[1])
  /\ IsSuccessSectionOf(results[2], files[2])
  /\ \E i \in 1..Len(ret.text) : ret.text[i] = EAcute

\* ------------------------------------------------------------------------
\* C6
\* ------------------------------------------------------------------------

\* C6: for the item transcribe_file was called on: extract_audio is called
\* at most once, and only for a path with a video extension (in any letter
\* case); when transcription is called for such a path, extract_audio was
\* called exactly once before it, returned, and transcription reads the
\* path it returned; for any other path extract_audio is not called and
\* transcription reads the item's own path.
C6_ExtractBeforeTranscribe ==
  log # <<>> =>
    LET p == log[1].arg
    IN  /\ Cardinality(CallsOf("extract_audio")) <= 1
        /\ Cardinality(CallsOf("transcribe")) <= 1
        /\ CallsOf("extract_audio") # {} => HasVideoExtension(p)
        /\ pc = "transcribe" /\ HasVideoExtension(p) =>
             \E i \in CallsOf("extract_audio") : log[i].res = audio_path
        /\ pc = "transcribe" /\ ~HasVideoExtension(p) => audio_path = p
        /\ \A j \in CallsOf("transcribe") :
             IF HasVideoExtension(p)
               THEN /\ Cardinality(CallsOf("extract_audio")) = 1
                    /\ \A i \in CallsOf("extract_audio") :
                         /\ i < j
                         /\ log[i].arg = p
                         /\ log[i].res # None
                         /\ log[j].arg = log[i].res
                         /\ log[j].arg # p
               ELSE /\ CallsOf("extract_audio") = {}
                    /\ log[j].arg = p

\* the upload c.Mp4 was extracted and its waveform transcribed
C6_Witness ==
  /\ pc = "cleanup"
  /\ file_path = <<"b","/","c",".","M","p","4">>
  /\ CallsOf("extract_audio") # {}
  /\ CallsOf("transcribe") # {}

\* ------------------------------------------------------------------------
\* C7
\* ------------------------------------------------------------------------

\* C7: the list process_folder iterates over holds exactly the files
\* directly inside the folder whose extension is an audio or video
\* extension in any letter case.
C7_ScanFindsAllMedia ==
  (mode = "folder" /\ pc # "idle" /\ arg # <<>>) =>
    { files[i] : i \in 1..Len(files) } = MediaFilesIn(arg)

\* ------------------------------------------------------------------------
\* C9
\* ------------------------------------------------------------------------

\* position of the extension of p in all_exts, letter case ignored
GroupOf(p) == CHOOSE g \in 1..Len(all_exts) : all_exts[g] = lower(PathSuffix(p))

\* position of p in the enumeration order of the file system
EnumerationIndex(p) == CHOOSE i \in 1..Len(FsListing) : FsListing[i] = p

\* C9: a folder report has one section per discovered file, no file twice,
\* the sections ordered by extension group in the order of all_exts and,
\* among files with the same extension, in enumeration order.
C9_FolderSectionsOncePerFile ==
  (mode = "folder" /\ ReturnedReport) =>
    /\ Len(results) = Len(files)
    /\ \A k \in 1..Len(files) : StartsWith(results[k], Header(FinalSegment(files[k])))
    /\ \A i, j \in 1..Len(files) : i # j => files[i] # files[j]
    /\ \A i, j \in 1..Len(files) : i < j =>
         /\ GroupOf(files[i]) <= GroupOf(files[j])
         /\ PathSuffix(files[i]) = PathSuffix(files[j]) =>
              EnumerationIndex(files[i]) < EnumerationIndex(files[j])

\* ------------------------------------------------------------------------
\* C8
\* ------------------------------------------------------------------------

\* C8: no report file exists while the items are being processed; a batch
\* that returns a report created exactly one report file, the one it
\* returns, after all items got their section; every report file ever
\* created still exists; and only temporary waveforms created by
\* extract_audio were ever unlinked.
C8_OneReportNeverDeleted ==
  /\ InItem \/ pc = "persist" => created_txt = {}
  /\ ReturnedReport =>
       /\ created_txt = {ret.handle}
       /\ Len(results) = Len(files)
       /\ idx = Len(files) + 1
  /\ reports \subseteq DOMAIN disk
  /\ unlinked \subseteq created_wav
  /\ unlinked \cap reports = {}

\* the second batch returned its report, a waveform was unlinked on the
\* way, and the report of the first batch is still there
C8_Witness ==
  /\ ReturnedReport
  /\ Cardinality(reports) = 2
  /\ unlinked # {}
  /\ \E r \in reports : r # ret.handle /\ disk[r] # EmptyBytes

\* ------------------------------------------------------------------------
\* C10
\* ------------------------------------------------------------------------

\* C10: every file of the user exists with its content untouched; no
\* temporary file took the path of one, and none was ever unlinked.
C10_SourceFilesUntouched ==
  /\ \A p \in SourceFiles : p \in DOMAIN disk /\ disk[p] = MediaBytes
  /\ created_wav \cap SourceFiles = {}
  /\ reports \cap SourceFiles = {}
  /\ unlinked \cap SourceFiles = {}
  /\ pc = "cleanup" /\ audio_path = file_path => audio_path \notin created_wav

\* a second batch has finished; an audio item was transcribed from its own
\* path, a video item had its waveform unlinked, another one failed
C10_Witness ==
  /\ pc = "returned" /\ work = 3 /\ Len(files) = 1
  /\ unlinked # {}
  /\ created_wav \cap DOMAIN disk # {}
  /\ ~HasVideoExtension(files[1])
  /\ IsSuccessSectionOf(results[1], files[1])

====
